---- MODULE Spec2Model ----
(***************************************************************************)
(* Meal-plan service of the nutrition tracker backend:                     *)
(*   backend/src/services/mealPlan.ts  (MealPlanService)                   *)
(*   backend/src/routes/mealPlan.ts    (the /meal-plans router)            *)
(* Every request is one slot of `req`; each await of a handler is one      *)
(* action, so that requests interleave at the points where the code can    *)
(* be suspended.  The user table, the completion service and the failures  *)
(* of the database are the environment.                                    *)
(***************************************************************************)
EXTENDS Integers, Sequences, FiniteSets, TLC

VARIABLES
  req,        \* the requests in flight and answered, one record per slot
  plans,      \* rows of prisma.mealPlan, in insertion order
  menuCache,  \* rows of prisma.menuCache
  clock,      \* the latest instant a handler or the database has read, in ticks
  upserts     \* history: per user, the menus of the last completed upsert

vars == <<req, plans, menuCache, clock, upserts>>

(***************************************************************************)
(* Bounds of the model.                                                    *)
(***************************************************************************)
MaxCalls == 2       \* requests served in one behaviour
MaxClock == 2       \* the last instant of a behaviour
TicksPerDay == 2    \* ticks in one calendar day

ReqIds == 1..MaxCalls

(***************************************************************************)
(* JavaScript values whose type varies at run time are tagged records.     *)
(***************************************************************************)
Undefined == [type |-> "undefined"]
Null == [type |-> "null"]
Arr(items) == [type |-> "array", items |-> items]
Obj(fields) == [type |-> "object", fields |-> fields]
EmptyObj == [type |-> "object", fields |-> <<>>]

\* v.k : reading a property of null or undefined is a TypeError
ReadThrows(v) == v.type \in {"null", "undefined"}
Read(v, k) ==
  IF v.type = "object" /\ k \in DOMAIN v.fields THEN v.fields[k] ELSE Undefined
Num(n) == [type |-> "number", value |-> n]
Str(chars) == [type |-> "string", value |-> chars]
\* x || y : undefined, null, 0 and '' are falsy, arrays and objects are truthy
Falsy(x) ==
  \/ x.type \in {"null", "undefined"}
  \/ x.type = "number" /\ x.value = 0
  \/ x.type = "string" /\ x.value = ""
OrElse(x, y) == IF Falsy(x) THEN y ELSE x

(***************************************************************************)
(* The user table.  No handler of the router creates or deletes a user,    *)
(* so the rows are fixed; "ghost" is an id without a row.                  *)
(***************************************************************************)
Users == {"u1", "u2"}
Callers == Users \cup {"ghost"}
\* a lookup whose result is never tested: every id passes
findUniqueUnchecked(userId) == TRUE

\* prisma.user.findUnique({where: {id}}) followed by if (!user)
findUnique(userId) == userId \in Users

(***************************************************************************)
(* Calendar date of an instant: new Date().toISOString().split('T')[0]     *)
(* drops the time of day.                                                  *)
(***************************************************************************)
ISODate(t) == t \div TicksPerDay

(***************************************************************************)
(* Fallback catalog.                                                       *)
(***************************************************************************)
getFallbackMealPlan(now) ==
  Obj([meals |-> Arr(<<
    [day |-> 1,
     date |-> ISODate(now),
     meals |-> [
       breakfast |-> [name |-> "Oatmeal with Berries",
                      description |-> "Healthy start to your day",
                      calories |-> 350, protein |-> 12, carbs |-> 65, fat |-> 8,
                      fiber |-> 10,
                      ingredients |-> <<"oats", "mixed berries", "almond milk">>,
                      instructions |-> <<"Cook oats", "Add berries", "Serve hot">>,
                      prepTime |-> 10, difficulty |-> "easy"],
       lunch |-> [name |-> "Grilled Chicken Salad",
                  description |-> "Protein-rich salad",
                  calories |-> 450, protein |-> 35, carbs |-> 20, fat |-> 25,
                  fiber |-> 8,
                  ingredients |-> <<"chicken breast", "mixed greens", "olive oil">>,
                  instructions |-> <<"Grill chicken", "Prepare salad", "Combine">>,
                  prepTime |-> 20, difficulty |-> "medium"],
       dinner |-> [name |-> "Salmon with Vegetables",
                   description |-> "Omega-3 rich dinner",
                   calories |-> 500, protein |-> 40, carbs |-> 30, fat |-> 25,
                   fiber |-> 12,
                   ingredients |-> <<"salmon fillet", "broccoli", "sweet potato">>,
                   instructions |-> <<"Bake salmon", "Steam vegetables", "Serve">>,
                   prepTime |-> 25, difficulty |-> "medium"]],
     totalCalories |-> 1300]
  >>)])

getFallbackMenus ==
  Arr(<<
    [id |-> "fallback-1",
     name |-> "Quick & Healthy",
     description |-> "Simple meals for busy days",
     meals |-> <<
       [name |-> "Avocado Toast",
        description |-> "Nutritious breakfast option",
        calories |-> 300, protein |-> 12, carbs |-> 35, fat |-> 18, fiber |-> 10,
        ingredients |-> <<"whole grain bread", "avocado", "eggs">>,
        instructions |-> <<"Toast bread", "Mash avocado", "Top with egg">>,
        prepTime |-> 10, difficulty |-> "easy"] >>,
     totalCalories |-> 1500,
     tags |-> <<"quick", "healthy", "easy">>,
     difficulty |-> "easy",
     prepTime |-> 30]
  >>)

(***************************************************************************)
(* Texts of the completion service.  A text is either the serialisation    *)
(* of a JSON document or not JSON at all; JSON.parse throws a SyntaxError  *)
(* on the latter (the empty string included) and yields the document on    *)
(* the former.                                                             *)
(***************************************************************************)
Text(chars, wellFormed, doc) ==
  [isNull |-> FALSE, chars |-> chars, wellFormed |-> wellFormed, doc |-> doc]
EmptyText == Text("", FALSE, Undefined)
NullContent == [isNull |-> TRUE, chars |-> "", wellFormed |-> FALSE, doc |-> Undefined]

JSONParse(text) ==
  IF text.wellFormed THEN [threw |-> FALSE, value |-> text.doc]
                     ELSE [threw |-> TRUE, value |-> Undefined]

\* aiResponse.choices[0].message.content || ''
ContentOrEmpty(content) == IF content.isNull \/ content.chars = "" THEN EmptyText ELSE content

\* a parser whose catch block is missing: the SyntaxError leaves nothing to return
parseMealPlanResponseUncaught(response, now) == JSONParse(response).value

parseMealPlanResponse(response, now) ==
  LET parsed == JSONParse(response)
  IN  IF parsed.threw THEN getFallbackMealPlan(now) ELSE parsed.value

parseRecommendedMenusResponse(response) ==
  LET parsed == JSONParse(response)
  IN  IF parsed.threw \/ ReadThrows(parsed.value)
        THEN getFallbackMenus
        ELSE OrElse(Read(parsed.value, "menus"), Arr(<<>>))

(***************************************************************************)
(* What the completion service can answer: the inputs of the model.        *)
(***************************************************************************)
Meal(name, calories) ==
  [name |-> name, description |-> "generated", calories |-> calories,
   protein |-> 20, carbs |-> 45, fat |-> 15, fiber |-> 8,
   ingredients |-> <<"ingredient1">>]

Day(d, total) ==
  [day |-> d, date |-> 0,
   meals |-> [breakfast |-> Meal("porridge", 400), lunch |-> Meal("soup", 600),
              dinner |-> Meal("stew", 700), snacks |-> <<Meal("apple", 100)>>],
   totalCalories |-> total]

DayWithoutLunch(d) ==
  [day |-> d, date |-> 0,
   meals |-> [breakfast |-> Meal("porridge", 400), dinner |-> Meal("stew", 700)],
   totalCalories |-> 1100]

OracleMenu ==
  [id |-> "menu-1", name |-> "Mediterranean Delight", description |-> "generated",
   meals |-> <<Meal("Greek Salad Bowl", 350)>>, totalCalories |-> 350,
   tags |-> <<"mediterranean">>, difficulty |-> "easy", prepTime |-> 45]

\* answers tried on the plan path
PlanContents == {
  Text("I cannot help with that", FALSE, Undefined),
  Text("null", TRUE, Null),
  Text("{}", TRUE, EmptyObj),
  Text("plan, two days", TRUE, Obj([meals |-> Arr(<<Day(1, 1800), Day(2, 1800)>>)])),
  Text("plan, wrong total", TRUE, Obj([meals |-> Arr(<<Day(1, 9999)>>)])),
  Text("plan, no lunch", TRUE, Obj([meals |-> Arr(<<DayWithoutLunch(1)>>)]))
}

\* answers tried on the menu path
MenuContents == {
  NullContent,
  Text("I cannot help with that", FALSE, Undefined),
  Text("null", TRUE, Null),
  Text("{}", TRUE, EmptyObj),
  Text("menus, one", TRUE, Obj([menus |-> Arr(<<OracleMenu>>)]))
}

(***************************************************************************)
(* Request validation of the router (express-validator chains).            *)
(***************************************************************************)
MinTargetCalories == 1000
MaxTargetCalories == 5000
MinDuration == 1
MaxDuration == 30
DefaultDuration == 7

\* a validator that checks the lower limits only
validateMealPlanRequestNoMax(body) ==
  /\ body.targetCalories.type = "number"
  /\ body.targetCalories.value >= MinTargetCalories
  /\ \/ body.duration.type = "undefined"
     \/ body.duration.type = "number" /\ body.duration.value >= MinDuration
  /\ body.dietaryRestrictions.type \in {"undefined", "array"}
  /\ body.preferences.type \in {"undefined", "array"}

\* body('targetCalories').isInt({min, max}); body('duration').optional().isInt({min, max});
\* body('dietaryRestrictions').optional().isArray(); body('preferences').optional().isArray()
validateMealPlanRequest(body) ==
  /\ body.targetCalories.type = "number"
  /\ body.targetCalories.value >= MinTargetCalories
  /\ body.targetCalories.value <= MaxTargetCalories
  /\ \/ body.duration.type = "undefined"
     \/ /\ body.duration.type = "number"
        /\ body.duration.value >= MinDuration
        /\ body.duration.value <= MaxDuration
  /\ body.dietaryRestrictions.type \in {"undefined", "array"}
  /\ body.preferences.type \in {"undefined", "array"}

\* req.user?.id after authenticateToken: an id, or nothing
NoUser == "anonymous"
Principals == Callers \cup {NoUser}

\* the POST /generate requests tried: who asks, and the body
HttpRequest(principal, targetCalories, duration) ==
  [principal |-> principal,
   body |-> [targetCalories |-> targetCalories, duration |-> duration,
             dietaryRestrictions |-> Undefined, preferences |-> Undefined]]
WithLists(h, dietaryRestrictions, preferences) ==
  [h EXCEPT !.body.dietaryRestrictions = dietaryRestrictions,
            !.body.preferences = preferences]
GenerateRequests == {
  HttpRequest("u1", Num(2000), Undefined),
  WithLists(HttpRequest("u1", Num(2000), Num(2)), Arr(<<"vegan", "nut-free">>), Arr(<<>>)),
  HttpRequest("u2", Num(2000), Undefined),
  HttpRequest("ghost", Num(2000), Undefined),
  HttpRequest(NoUser, Num(2000), Undefined),
  HttpRequest("u1", Num(999), Undefined),
  HttpRequest("u2", Num(2000), Num(31))
}

(***************************************************************************)
(* Request slots.                                                          *)
(***************************************************************************)
NoResponse == [content |-> NullContent, state |-> "none"]
OracleError == [content |-> NullContent, state |-> "rejected"]
Response(content) == [content |-> content, state |-> "resolved"]
PlanResponses == {Response(c) : c \in PlanContents}
MenuResponses == {Response(c) : c \in MenuContents}

IdleReq ==
  [op |-> "none", pc |-> "idle", userId |-> NoUser,
   targetCalories |-> 0, duration |-> Undefined,
   aiResponse |-> NoResponse, data |-> Undefined,
   outcome |-> "none", value |-> Undefined, message |-> "", logged |-> "",
   status |-> 0, oracleCalls |-> 0, mealPlanId |-> 0,
   dietaryRestrictions |-> Undefined, preferences |-> Undefined, prompt |-> Undefined,
   filters |-> Undefined]

\* await openai.chat.completions.create(...): one more call is out
callOracle(q) == [q EXCEPT !.pc = "oracle", !.oracleCalls = @ + 1]

\* slots are taken in order
CanStart(r) == req[r].pc = "idle" /\ (IF r = 1 THEN TRUE ELSE req[r - 1].pc # "idle")

\* time does not run backwards: what new Date() and the database's now() can read next
Later == clock..MaxClock

Init ==
  /\ req = [r \in ReqIds |-> IdleReq]
  /\ plans = <<>>
  /\ menuCache = {}
  /\ clock = 1
  /\ upserts = [u \in Callers |-> Undefined]

(***************************************************************************)
(* The prompt of generateMealPlan.                                         *)
(***************************************************************************)
\* the MealPlanRequest the router builds for slot q
MealPlanRequest(q) ==
  [userId |-> q.userId, targetCalories |-> q.targetCalories,
   dietaryRestrictions |-> q.dietaryRestrictions, preferences |-> q.preferences,
   duration |-> q.duration]

\* items.join(separator)
RECURSIVE Join(_, _)
Join(items, separator) ==
  IF items = <<>> THEN ""
  ELSE IF Len(items) = 1 THEN items[1]
  ELSE items[1] \o separator \o Join(Tail(items), separator)

\* list?.join(', ')
JoinIfPresent(list) ==
  IF list.type = "array" THEN Str(Join(list.items, ", ")) ELSE Undefined

\* the template literal, with the date of its example day left open
MealPlanPromptText(request, exampleDate) ==
  LET restrictions == OrElse(JoinIfPresent(request.dietaryRestrictions), Str("none"))
      preferences == OrElse(JoinIfPresent(request.preferences), Str("none"))
  IN  "Generate a " \o ToString(OrElse(request.duration, Num(DefaultDuration)).value)
      \o "-day meal plan for " \o ToString(request.targetCalories)
      \o " calories per day.\n\nDietary restrictions: " \o restrictions.value
      \o "\nPreferences: " \o preferences.value
      \o "\n\nPlease provide a detailed meal plan in JSON format with the following structure:"
      \o "\n{ \"meals\": [ { \"day\": 1, \"date\": \"" \o exampleDate
      \o "\", \"meals\": { ... }, \"totalCalories\": " \o ToString(request.targetCalories)
      \o " } ] }\n\nEnsure each day's meals total approximately "
      \o ToString(request.targetCalories)
      \o " calories and include balanced macronutrients."

\* a prompt whose example day carries today's date
createMealPlanPromptDated(request) == MealPlanPromptText(request, ToString(ISODate(clock)))

createMealPlanPrompt(request) == MealPlanPromptText(request, "2024-01-01")

(***************************************************************************)
(* POST /generate and MealPlanService.generateMealPlan                     *)
(***************************************************************************)
\* the service's catch block: log the error, throw the generic one;
\* the router's catch block answers 500 with that message
GenerateThrows(q, error) ==
  [q EXCEPT !.pc = "done", !.outcome = "throw", !.logged = error, !.data = Undefined,
            !.message = "Failed to generate meal plan", !.status = 500]

PostGenerate(r, principal, body) ==
  /\ CanStart(r)
  /\ req' = [req EXCEPT ![r] =
       IF ~validateMealPlanRequest(body)
         THEN [@ EXCEPT !.op = "generate", !.pc = "done", !.status = 400,
                        !.message = "Validation errors"]
       ELSE IF principal = NoUser
         THEN [@ EXCEPT !.op = "generate", !.pc = "done", !.status = 401,
                        !.message = "User not authenticated"]
       ELSE [@ EXCEPT !.op = "generate", !.pc = "findUser", !.userId = principal,
                      !.targetCalories = body.targetCalories.value,
                      !.dietaryRestrictions = body.dietaryRestrictions,
                      !.preferences = body.preferences,
                      !.duration = OrElse(body.duration, Num(DefaultDuration))]]
  /\ UNCHANGED <<plans, menuCache, clock, upserts>>

GenerateFindUser(r) ==
  /\ req[r].op = "generate" /\ req[r].pc = "findUser"
  /\ req' = [req EXCEPT ![r] =
       IF findUnique(@.userId)
         THEN callOracle([@ EXCEPT
                !.prompt = Str(createMealPlanPrompt(MealPlanRequest(req[r])))])
                               ELSE GenerateThrows(@, "User not found")]
  /\ UNCHANGED <<plans, menuCache, clock, upserts>>

GenerateOracleFails(r) ==
  /\ req[r].op = "generate" /\ req[r].pc = "oracle"
  /\ req' = [req EXCEPT ![r] =
       GenerateThrows([@ EXCEPT !.aiResponse = OracleError], "oracle error")]
  /\ UNCHANGED <<plans, menuCache, clock, upserts>>

\* the completion resolves: parse it, then start prisma.mealPlan.create
GenerateOracleReplies(r, aiResponse, now) ==
  /\ req[r].op = "generate" /\ req[r].pc = "oracle"
  /\ req' = [req EXCEPT ![r] =
       LET q == [@ EXCEPT !.aiResponse = aiResponse]
           mealPlanData ==
             parseMealPlanResponse(ContentOrEmpty(aiResponse.content), now)
       IN  IF ReadThrows(mealPlanData)
             THEN GenerateThrows(q, "TypeError")
             ELSE [q EXCEPT !.pc = "create", !.data = mealPlanData]]
  /\ clock' = now
  /\ UNCHANGED <<plans, menuCache, upserts>>

\* what a Json column gives back for what was written: JSON has no undefined,
\* an omitted value is read back as null
JsonColumn(value) == IF value = Undefined THEN Null ELSE value

\* a create that stores the default duration whatever was asked for
mealPlanCreateDefaultDuration(rows, data, now) ==
  Append(rows, [id |-> Len(rows) + 1, userId |-> data.userId,
                targetCalories |-> data.targetCalories, duration |-> DefaultDuration,
                dietaryRestrictions |-> data.dietaryRestrictions,
                preferences |-> data.preferences,
                meals |-> JsonColumn(data.meals), createdAt |-> now])

mealPlanCreate(rows, data, now) ==
  Append(rows, [id |-> Len(rows) + 1, userId |-> data.userId,
                targetCalories |-> data.targetCalories, duration |-> data.duration,
                dietaryRestrictions |-> data.dietaryRestrictions,
                preferences |-> data.preferences,
                meals |-> JsonColumn(data.meals), createdAt |-> now])

GenerateCreated(r, now) ==
  /\ req[r].op = "generate" /\ req[r].pc = "create"
  /\ LET q == req[r]
         duration == OrElse(q.duration, Num(DefaultDuration))
         meals == Read(q.data, "meals")
         rows == mealPlanCreate(plans,
                   [userId |-> q.userId, targetCalories |-> q.targetCalories,
                    duration |-> duration.value,
                    dietaryRestrictions |-> OrElse(q.dietaryRestrictions, Arr(<<>>)),
                    preferences |-> OrElse(q.preferences, Arr(<<>>)),
                    meals |-> meals], now)
         mealPlan == rows[Len(rows)]
     IN  /\ plans' = rows
         /\ req' = [req EXCEPT ![r] =
              [@ EXCEPT !.pc = "done", !.outcome = "return", !.status = 200,
                        !.message = "Meal plan generated successfully",
                        !.data = Undefined,
                        !.value = [id |-> mealPlan.id, userId |-> mealPlan.userId,
                                   targetCalories |-> mealPlan.targetCalories,
                                   duration |-> mealPlan.duration,
                                   meals |-> meals,
                                   createdAt |-> mealPlan.createdAt]]]
  /\ clock' = now
  /\ UNCHANGED <<menuCache, upserts>>

GenerateCreateFails(r) ==
  /\ req[r].op = "generate" /\ req[r].pc = "create"
  /\ req' = [req EXCEPT ![r] = GenerateThrows(@, "create failed")]
  /\ UNCHANGED <<plans, menuCache, clock, upserts>>

(***************************************************************************)
(* Reading the plan store: MealPlanService.getMealPlan, getUserMealPlans   *)
(* and the routes GET /:mealPlanId, GET / and DELETE /:mealPlanId.         *)
(***************************************************************************)
PlanIds == 1..MaxCalls

\* the MealPlanResponse a row is mapped to
PlanResponse(mealPlan) ==
  [id |-> mealPlan.id, userId |-> mealPlan.userId,
   targetCalories |-> mealPlan.targetCalories, duration |-> mealPlan.duration,
   meals |-> mealPlan.meals, createdAt |-> mealPlan.createdAt]

\* a findFirst that looks the plan up by its id alone
findFirstById(rows, userId, mealPlanId) ==
  LET hits == {i \in DOMAIN rows : rows[i].id = mealPlanId}
  IN  IF hits = {} THEN Null ELSE rows[CHOOSE i \in hits : \A j \in hits : i <= j]

\* prisma.mealPlan.findFirst({where: {id: mealPlanId, userId: userId}})
findFirst(rows, userId, mealPlanId) ==
  LET hits == {i \in DOMAIN rows : rows[i].id = mealPlanId /\ rows[i].userId = userId}
  IN  IF hits = {} THEN Null ELSE rows[CHOOSE i \in hits : \A j \in hits : i <= j]

getMealPlan(rows, userId, mealPlanId) ==
  LET mealPlan == findFirst(rows, userId, mealPlanId)
  IN  IF mealPlan = Null THEN Null ELSE PlanResponse(mealPlan)

\* a findMany that forgets the where clause
findManyOfAnyUser(rows, userId) ==
  LET n == Len(rows)
  IN  {[k \in 1..n |-> rows[f[k]]] :
         f \in {g \in [1..n -> 1..n] :
                 /\ \A j, k \in 1..n : j # k => g[j] # g[k]
                 /\ \A j, k \in 1..n :
                      j < k => rows[g[j]].createdAt >= rows[g[k]].createdAt}}

\* prisma.mealPlan.findMany({where: {userId}, orderBy: {createdAt: 'desc'}}):
\* every order of the user's rows with createdAt descending (rows created at
\* the same instant come in either order)
findMany(rows, userId) ==
  LET owned == {i \in DOMAIN rows : rows[i].userId = userId}
      n == Cardinality(owned)
  IN  {[k \in 1..n |-> rows[f[k]]] :
         f \in {g \in [1..n -> owned] :
                 /\ \A j, k \in 1..n : j # k => g[j] # g[k]
                 /\ \A j, k \in 1..n :
                      j < k => rows[g[j]].createdAt >= rows[g[k]].createdAt}}

\* the arrays getUserMealPlans can return
getUserMealPlans(rows, userId) ==
  {[k \in DOMAIN mealPlans |-> PlanResponse(mealPlans[k])] :
     mealPlans \in findMany(rows, userId)}

\* a route that needs req.user?.id and then awaits one service call
StartRoute(r, op, principal, mealPlanId) ==
  /\ CanStart(r)
  /\ req' = [req EXCEPT ![r] =
       IF principal = NoUser
         THEN [@ EXCEPT !.op = op, !.pc = "done", !.status = 401,
                        !.message = "User not authenticated"]
         ELSE [@ EXCEPT !.op = op, !.pc = "query", !.userId = principal,
                        !.mealPlanId = mealPlanId]]
  /\ UNCHANGED <<plans, menuCache, clock, upserts>>

\* the service's catch block and the router's: the query failed
RouteFails(r, op, thrown, message) ==
  /\ req[r].op = op /\ req[r].pc = "query"
  /\ req' = [req EXCEPT ![r] =
       [@ EXCEPT !.pc = "done", !.outcome = "throw", !.logged = thrown,
                 !.message = message, !.status = 500]]
  /\ UNCHANGED <<plans, menuCache, clock, upserts>>

NotFound(q) ==
  [q EXCEPT !.pc = "done", !.outcome = "return", !.value = Null,
            !.status = 404, !.message = "Meal plan not found"]

\* GET /:mealPlanId
GetMealPlan(r, principal, mealPlanId) == StartRoute(r, "get", principal, mealPlanId)

GetMealPlanAnswers(r) ==
  /\ req[r].op = "get" /\ req[r].pc = "query"
  /\ req' = [req EXCEPT ![r] =
       LET mealPlan == getMealPlan(plans, @.userId, @.mealPlanId)
       IN  IF mealPlan = Null THEN NotFound(@)
           ELSE [@ EXCEPT !.pc = "done", !.outcome = "return", !.value = mealPlan,
                          !.status = 200, !.message = "Meal plan retrieved successfully"]]
  /\ UNCHANGED <<plans, menuCache, clock, upserts>>

GetMealPlanFails(r) ==
  RouteFails(r, "get", "Failed to get meal plan", "Failed to get meal plan")

\* GET /
GetUserMealPlans(r, principal) == StartRoute(r, "list", principal, 0)

GetUserMealPlansAnswers(r, mealPlans) ==
  /\ req[r].op = "list" /\ req[r].pc = "query"
  /\ mealPlans \in getUserMealPlans(plans, req[r].userId)
  /\ req' = [req EXCEPT ![r] =
       [@ EXCEPT !.pc = "done", !.outcome = "return", !.value = Arr(mealPlans),
                 !.status = 200, !.message = "Meal plans retrieved successfully"]]
  /\ UNCHANGED <<plans, menuCache, clock, upserts>>

GetUserMealPlansFails(r) ==
  RouteFails(r, "list", "Failed to get meal plans", "Failed to get meal plans")

\* DELETE /:mealPlanId
DeleteMealPlan(r, principal, mealPlanId) == StartRoute(r, "delete", principal, mealPlanId)

\* the existence check answered; the call of mealPlanService.deleteMealPlan is
\* commented out in the router, so the store is left as it is
DeleteMealPlanAnswers(r) ==
  /\ req[r].op = "delete" /\ req[r].pc = "query"
  /\ req' = [req EXCEPT ![r] =
       LET existingPlan == getMealPlan(plans, @.userId, @.mealPlanId)
       IN  IF existingPlan = Null THEN NotFound(@)
           ELSE [@ EXCEPT !.pc = "done", !.outcome = "return", !.status = 200,
                          !.message = "Meal plan deleted successfully"]]
  /\ UNCHANGED <<plans, menuCache, clock, upserts>>

DeleteMealPlanFails(r) ==
  RouteFails(r, "delete", "Failed to get meal plan", "Failed to delete meal plan")

(***************************************************************************)
(* GET /recommended and MealPlanService.getRecommendedMenus                *)
(***************************************************************************)
MinMaxCalories == 500
MaxMaxCalories == 3000
Difficulties == {"easy", "medium", "hard"}

validateRecommendedMenuQuery(query) ==
  /\ \/ query.difficulty.type = "undefined"
     \/ query.difficulty.type = "string" /\ query.difficulty.value \in Difficulties
  /\ \/ query.maxCalories.type = "undefined"
     \/ /\ query.maxCalories.type = "number"
        /\ query.maxCalories.value >= MinMaxCalories
        /\ query.maxCalories.value <= MaxMaxCalories
  /\ query.dietaryRestrictions.type \in {"undefined", "string"}

Queries == {
  [difficulty |-> Undefined, maxCalories |-> Undefined, dietaryRestrictions |-> Undefined],
  [difficulty |-> Str("easy"), maxCalories |-> Num(1500),
   dietaryRestrictions |-> Str("vegan,nut-free")],
  [difficulty |-> Str("extreme"), maxCalories |-> Undefined, dietaryRestrictions |-> Undefined],
  [difficulty |-> Undefined, maxCalories |-> Num(499), dietaryRestrictions |-> Undefined]
}

\* chars.split(','), scanning from position i with the current piece starting at start
RECURSIVE SplitFrom(_, _, _)
SplitFrom(chars, start, i) ==
  IF i > Len(chars) THEN <<SubSeq(chars, start, Len(chars))>>
  ELSE IF SubSeq(chars, i, i) = ","
    THEN <<SubSeq(chars, start, i - 1)>> \o SplitFrom(chars, i + 1, i + 1)
  ELSE SplitFrom(chars, start, i + 1)
Split(chars) == SplitFrom(chars, 1, 1)

\* the filters the router hands to getRecommendedMenus
Filters(query) ==
  [difficulty |-> query.difficulty,
   maxCalories |-> IF Falsy(query.maxCalories) THEN Undefined ELSE query.maxCalories,
   dietaryRestrictions |->
     IF Falsy(query.dietaryRestrictions) THEN Undefined
     ELSE Arr(Split(query.dietaryRestrictions.value))]

DefaultDifficulty == "any"
DefaultMaxCalories == 2000

\* `${value}` in a template literal
Render(value) == IF value.type = "number" THEN ToString(value.value) ELSE value.value

createRecommendedMenuPrompt(user, filters) ==
  LET difficulty == OrElse(filters.difficulty, Str(DefaultDifficulty))
      maxCalories == OrElse(filters.maxCalories, Num(DefaultMaxCalories))
      restrictions == OrElse(JoinIfPresent(filters.dietaryRestrictions), Str("none"))
  IN  "Generate 6 diverse recommended meal menus for a user with the following preferences:"
      \o "\n\nDifficulty level: " \o Render(difficulty)
      \o "\nMax calories per menu: " \o Render(maxCalories)
      \o "\nDietary restrictions: " \o Render(restrictions)
      \o "\n\nPlease provide recommendations in JSON format:"
      \o "\n{ \"menus\": [ { \"id\": \"menu-1\", ... } ] }"
      \o "\n\nMake each menu unique with different cuisines and cooking styles."

\* a catch block like the one of generateMealPlan: log, throw the generic error
RecommendedRethrows(q, error) ==
  [q EXCEPT !.pc = "done", !.outcome = "throw", !.logged = error,
            !.message = "Failed to get recommended menus", !.status = 500]

\* a catch block that tries the completion once more before giving up
RecommendedRetries(q, error) ==
  IF error = "oracle error" /\ q.oracleCalls < 2
    THEN callOracle([q EXCEPT !.aiResponse = NoResponse, !.logged = error])
    ELSE [q EXCEPT !.pc = "done", !.outcome = "return", !.logged = error,
                   !.value = getFallbackMenus, !.status = 200,
                   !.message = "Recommended menus retrieved successfully"]

\* the service's catch block: log the error, return the fallback menus
RecommendedFallsBack(q, error) ==
  [q EXCEPT !.pc = "done", !.outcome = "return", !.logged = error,
            !.value = getFallbackMenus, !.status = 200,
            !.message = "Recommended menus retrieved successfully"]

RecommendedReturns(q) ==
  [q EXCEPT !.pc = "done", !.outcome = "return", !.value = q.data, !.status = 200,
            !.message = "Recommended menus retrieved successfully"]

GetRecommended(r, principal, query) ==
  /\ CanStart(r)
  /\ req' = [req EXCEPT ![r] =
       IF ~validateRecommendedMenuQuery(query)
         THEN [@ EXCEPT !.op = "recommended", !.pc = "done", !.status = 400,
                        !.message = "Validation errors"]
       ELSE IF principal = NoUser
         THEN [@ EXCEPT !.op = "recommended", !.pc = "done", !.status = 401,
                        !.message = "User not authenticated"]
       ELSE [@ EXCEPT !.op = "recommended", !.pc = "findUser", !.userId = principal,
                      !.filters = Filters(query)]]
  /\ UNCHANGED <<plans, menuCache, clock, upserts>>

RecommendedFindUser(r) ==
  /\ req[r].op = "recommended" /\ req[r].pc = "findUser"
  /\ req' = [req EXCEPT ![r] =
       IF findUnique(@.userId)
         THEN callOracle([@ EXCEPT
                !.prompt = Str(createRecommendedMenuPrompt(req[r].userId, req[r].filters))])
                               ELSE RecommendedFallsBack(@, "User not found")]
  /\ UNCHANGED <<plans, menuCache, clock, upserts>>

RecommendedOracleFails(r) ==
  /\ req[r].op = "recommended" /\ req[r].pc = "oracle"
  /\ req' = [req EXCEPT ![r] =
       RecommendedFallsBack([@ EXCEPT !.aiResponse = OracleError], "oracle error")]
  /\ UNCHANGED <<plans, menuCache, clock, upserts>>

\* the completion resolves: parse it, then start prisma.menuCache.upsert
RecommendedOracleReplies(r, aiResponse) ==
  /\ req[r].op = "recommended" /\ req[r].pc = "oracle"
  /\ req' = [req EXCEPT ![r] =
       LET q == [@ EXCEPT !.aiResponse = aiResponse]
       IN  [q EXCEPT !.pc = "upsert",
                      !.data = parseRecommendedMenusResponse(
                                 ContentOrEmpty(aiResponse.content))]]
  /\ UNCHANGED <<plans, menuCache, clock, upserts>>

\* an upsert that takes the create branch only
menuCacheInsert(rows, userId, menus, now) ==
  rows \cup {[userId |-> userId, menus |-> menus, updatedAt |-> now]}

\* prisma.menuCache.upsert({where: {userId}, update: {menus, updatedAt}, create: {userId, menus}})
menuCacheUpsert(rows, userId, menus, now) ==
  IF \E row \in rows : row.userId = userId
    THEN {IF row.userId = userId
            THEN [row EXCEPT !.menus = menus, !.updatedAt = now]
            ELSE row : row \in rows}
    ELSE rows \cup {[userId |-> userId, menus |-> menus, updatedAt |-> now]}

RecommendedCached(r, now) ==
  /\ req[r].op = "recommended" /\ req[r].pc = "upsert"
  /\ menuCache' = menuCacheUpsert(menuCache, req[r].userId, req[r].data, now)
  /\ upserts' = [upserts EXCEPT ![req[r].userId] = req[r].data]
  /\ req' = [req EXCEPT ![r] = RecommendedReturns(@)]
  /\ clock' = now
  /\ UNCHANGED plans

\* a cache write whose error escapes to the catch block of getRecommendedMenus
cacheWriteFailedRethrown(q) ==
  RecommendedFallsBack([q EXCEPT !.logged = "upsert failed"], "upsert failed")

\* cacheRecommendedMenus when the upsert rejects: logged, not rethrown
cacheWriteFailed(q) == RecommendedReturns([q EXCEPT !.logged = "upsert failed"])

RecommendedCacheFails(r) ==
  /\ req[r].op = "recommended" /\ req[r].pc = "upsert"
  /\ req' = [req EXCEPT ![r] = cacheWriteFailed(@)]
  /\ UNCHANGED <<plans, menuCache, clock, upserts>>

Next ==
  \/ \E r \in ReqIds, h \in GenerateRequests : PostGenerate(r, h.principal, h.body)
  \/ \E r \in ReqIds : GenerateFindUser(r)
  \/ \E r \in ReqIds : GenerateOracleFails(r)
  \/ \E r \in ReqIds, a \in PlanResponses, now \in Later : GenerateOracleReplies(r, a, now)
  \/ \E r \in ReqIds, now \in Later : GenerateCreated(r, now)
  \/ \E r \in ReqIds : GenerateCreateFails(r)
  \/ \E r \in ReqIds, p \in Principals, query \in Queries : GetRecommended(r, p, query)
  \/ \E r \in ReqIds : RecommendedFindUser(r)
  \/ \E r \in ReqIds : RecommendedOracleFails(r)
  \/ \E r \in ReqIds, a \in MenuResponses : RecommendedOracleReplies(r, a)
  \/ \E r \in ReqIds, now \in Later : RecommendedCached(r, now)
  \/ \E r \in ReqIds : RecommendedCacheFails(r)

Spec == Init /\ [][Next]_vars

\* the two paths on their own
NextGenerate ==
  \/ \E r \in ReqIds, h \in GenerateRequests : PostGenerate(r, h.principal, h.body)
  \/ \E r \in ReqIds : GenerateFindUser(r)
  \/ \E r \in ReqIds : GenerateOracleFails(r)
  \/ \E r \in ReqIds, a \in PlanResponses, now \in Later : GenerateOracleReplies(r, a, now)
  \/ \E r \in ReqIds, now \in Later : GenerateCreated(r, now)
  \/ \E r \in ReqIds : GenerateCreateFails(r)

SpecGenerate == Init /\ [][NextGenerate]_vars

NextRecommended ==
  \/ \E r \in ReqIds, p \in Principals, query \in Queries : GetRecommended(r, p, query)
  \/ \E r \in ReqIds : RecommendedFindUser(r)
  \/ \E r \in ReqIds : RecommendedOracleFails(r)
  \/ \E r \in ReqIds, a \in MenuResponses : RecommendedOracleReplies(r, a)
  \/ \E r \in ReqIds, now \in Later : RecommendedCached(r, now)
  \/ \E r \in ReqIds : RecommendedCacheFails(r)

SpecRecommended == Init /\ [][NextRecommended]_vars

\* the plan store: plans are generated, read back, listed and deleted
NextStore ==
  \/ \E r \in ReqIds, h \in GenerateRequests : PostGenerate(r, h.principal, h.body)
  \/ \E r \in ReqIds : GenerateFindUser(r)
  \/ \E r \in ReqIds : GenerateOracleFails(r)
  \/ \E r \in ReqIds, a \in PlanResponses, now \in Later : GenerateOracleReplies(r, a, now)
  \/ \E r \in ReqIds, now \in Later : GenerateCreated(r, now)
  \/ \E r \in ReqIds : GenerateCreateFails(r)
  \/ \E r \in ReqIds, p \in Principals, id \in PlanIds : GetMealPlan(r, p, id)
  \/ \E r \in ReqIds : GetMealPlanAnswers(r)
  \/ \E r \in ReqIds : GetMealPlanFails(r)
  \/ \E r \in ReqIds, p \in Principals : GetUserMealPlans(r, p)
  \/ \E r \in ReqIds : \E mealPlans \in getUserMealPlans(plans, req[r].userId) :
       GetUserMealPlansAnswers(r, mealPlans)
  \/ \E r \in ReqIds : GetUserMealPlansFails(r)
  \/ \E r \in ReqIds, p \in Principals, id \in PlanIds : DeleteMealPlan(r, p, id)
  \/ \E r \in ReqIds : DeleteMealPlanAnswers(r)
  \/ \E r \in ReqIds : DeleteMealPlanFails(r)

SpecStore == Init /\ [][NextStore]_vars

\* the plan store as the two accounts fill it: the generate path with the
\* requests of existing users and one document per outcome of the parser
PlansRequests == {h \in GenerateRequests : h.principal \in Users}
PlansResponses ==
  {a \in PlanResponses :
     a.content.chars \in {"I cannot help with that", "{}", "plan, two days"}}

NextPlans ==
  \/ \E r \in ReqIds, h \in PlansRequests : PostGenerate(r, h.principal, h.body)
  \/ \E r \in ReqIds : GenerateFindUser(r)
  \/ \E r \in ReqIds : GenerateOracleFails(r)
  \/ \E r \in ReqIds, a \in PlansResponses, now \in Later : GenerateOracleReplies(r, a, now)
  \/ \E r \in ReqIds, now \in Later : GenerateCreated(r, now)
  \/ \E r \in ReqIds : GenerateCreateFails(r)

SpecPlans == Init /\ [][NextPlans]_vars

\* access to the plans of the two accounts: each generates plans, and each
\* (or an unauthenticated caller) asks for a plan by id or asks to delete it
AccessRequests ==
  {h \in GenerateRequests :
     h.principal \in Users /\ h.body = HttpRequest(h.principal, Num(2000), Undefined).body}
AccessResponses == {a \in PlanResponses : a.content.chars = "plan, two days"}
AccessPrincipals == Users \cup {NoUser}

NextAccess ==
  \/ \E r \in ReqIds, h \in AccessRequests : PostGenerate(r, h.principal, h.body)
  \/ \E r \in ReqIds : GenerateFindUser(r)
  \/ \E r \in ReqIds : GenerateOracleFails(r)
  \/ \E r \in ReqIds, a \in AccessResponses, now \in Later : GenerateOracleReplies(r, a, now)
  \/ \E r \in ReqIds, now \in Later : GenerateCreated(r, now)
  \/ \E r \in ReqIds : GenerateCreateFails(r)
  \/ \E r \in ReqIds, p \in AccessPrincipals, id \in PlanIds : GetMealPlan(r, p, id)
  \/ \E r \in ReqIds : GetMealPlanAnswers(r)
  \/ \E r \in ReqIds : GetMealPlanFails(r)
  \/ \E r \in ReqIds, p \in AccessPrincipals, id \in PlanIds : DeleteMealPlan(r, p, id)
  \/ \E r \in ReqIds : DeleteMealPlanAnswers(r)
  \/ \E r \in ReqIds : DeleteMealPlanFails(r)

SpecAccess == Init /\ [][NextAccess]_vars

\* both paths side by side, as one account and one absent user drive them:
\* every branch of both handlers is taken, with fewer documents per branch
ServiceRequests ==
  {h \in GenerateRequests : h.principal # "u2" \/ h.body.duration # Undefined}
ServicePrincipals == Principals \ {"u2"}
ServicePlanResponses ==
  {a \in PlanResponses : a.content.doc \in {Undefined, Null} \/ a.content.chars = "plan, two days"}
ServiceMenuResponses ==
  {a \in MenuResponses : ~a.content.isNull /\ a.content.doc \notin {Null, EmptyObj}}

NextService ==
  \/ \E r \in ReqIds, h \in ServiceRequests : PostGenerate(r, h.principal, h.body)
  \/ \E r \in ReqIds : GenerateFindUser(r)
  \/ \E r \in ReqIds : GenerateOracleFails(r)
  \/ \E r \in ReqIds, a \in ServicePlanResponses, now \in Later :
       GenerateOracleReplies(r, a, now)
  \/ \E r \in ReqIds, now \in Later : GenerateCreated(r, now)
  \/ \E r \in ReqIds : GenerateCreateFails(r)
  \/ \E r \in ReqIds, p \in ServicePrincipals, query \in Queries : GetRecommended(r, p, query)
  \/ \E r \in ReqIds : RecommendedFindUser(r)
  \/ \E r \in ReqIds : RecommendedOracleFails(r)
  \/ \E r \in ReqIds, a \in ServiceMenuResponses : RecommendedOracleReplies(r, a)
  \/ \E r \in ReqIds, now \in Later : RecommendedCached(r, now)
  \/ \E r \in ReqIds : RecommendedCacheFails(r)

SpecService == Init /\ [][NextService]_vars

\* what the process and the database do for slot r without waiting for the
\* completion service: the prisma calls settle
DatabaseSettles(r) ==
  \/ GenerateFindUser(r)
  \/ \E now \in Later : GenerateCreated(r, now)
  \/ GenerateCreateFails(r)
  \/ RecommendedFindUser(r)
  \/ \E now \in Later : RecommendedCached(r, now)
  \/ RecommendedCacheFails(r)

\* the database always answers; nothing makes openai.chat.completions.create
\* settle (it is awaited without a timeout), so its two steps carry no fairness
FairService == SpecService /\ \A r \in ReqIds : WF_vars(DatabaseSettles(r))

(***************************************************************************)
(* Vocabulary of the properties.                                           *)
(***************************************************************************)
\* the service method of slot r was entered and has finished
Finished(r, op) == req[r].op = op /\ req[r].pc = "done" /\ req[r].outcome # "none"
Returned(r, op) == Finished(r, op) /\ req[r].outcome = "return"
Threw(r, op) == Finished(r, op) /\ req[r].outcome = "throw"

\* the completion resolved with text that JSON.parse rejects
InvalidText(r) ==
  /\ req[r].aiResponse.state = "resolved"
  /\ ~req[r].aiResponse.content.isNull
  /\ ~req[r].aiResponse.content.wellFormed

Instants == 0..MaxClock
IsFallbackMeals(meals) ==
  \E t \in Instants : meals = Read(getFallbackMealPlan(t), "meals")

RECURSIVE SumCalories(_)
SumCalories(suggestions) ==
  IF suggestions = <<>> THEN 0
  ELSE Head(suggestions).calories + SumCalories(Tail(suggestions))

Slot(day, name) == IF name \in DOMAIN day.meals THEN day.meals[name].calories ELSE 0
DayCalories(day) ==
  Slot(day, "breakfast") + Slot(day, "lunch") + Slot(day, "dinner")
  + (IF "snacks" \in DOMAIN day.meals THEN SumCalories(day.meals.snacks) ELSE 0)

HasAllMeals(day) == {"breakfast", "lunch", "dinner"} \subseteq DOMAIN day.meals
Days(meals) == IF meals.type = "array" THEN meals.items ELSE <<>>

(***************************************************************************)
(* C1.  When the completion call itself fails for an existing user,        *)
(* generateMealPlan does not throw: it returns a plan built from the       *)
(* fallback catalog and POST /generate does not answer 500.                *)
(***************************************************************************)
C1_OracleFailureYieldsFallback ==
  \A r \in ReqIds :
    (Finished(r, "generate") /\ req[r].aiResponse.state = "rejected")
      => /\ req[r].outcome = "return"
         /\ req[r].status # 500
         /\ IsFallbackMeals(req[r].value.meals)

C3_AbsentUserGetsNotFound ==
  \A r \in ReqIds :
    (Finished(r, "recommended") /\ ~findUnique(req[r].userId))
      => /\ req[r].outcome = "throw"
         /\ req[r].value # getFallbackMenus

(***************************************************************************)
(* C4.  When the user does not exist, generateMealPlan surfaces a          *)
(* not-found error as a 4xx answer, distinguishable from a generation      *)
(* failure: not the generic "Failed to generate meal plan" / 500.          *)
(***************************************************************************)
C4_AbsentUserIsDistinguishable ==
  \A r \in ReqIds :
    (Finished(r, "generate") /\ ~findUnique(req[r].userId))
      => /\ req[r].status \in 400..499
         /\ req[r].message # "Failed to generate meal plan"

(***************************************************************************)
(* C5.  The plan returned by generateMealPlan has as many days as the      *)
(* resolved duration, with day indices exactly 1..duration.                *)
(***************************************************************************)
C5_DaysMatchDuration ==
  \A r \in ReqIds :
    Returned(r, "generate")
      => /\ req[r].value.meals.type = "array"
         /\ Len(Days(req[r].value.meals)) = req[r].value.duration
         /\ \A i \in 1..Len(Days(req[r].value.meals)) :
              Days(req[r].value.meals)[i].day = i

(***************************************************************************)
(* C6.  In every day of a plan returned by generateMealPlan,               *)
(* totalCalories is the sum of the calories of breakfast, lunch, dinner    *)
(* and snacks, whatever the completion text reported.                      *)
(***************************************************************************)
C6_TotalCaloriesRecomputed ==
  \A r \in ReqIds :
    Returned(r, "generate")
      => \A i \in 1..Len(Days(req[r].value.meals)) :
           LET day == Days(req[r].value.meals)[i]
           IN  day.totalCalories = DayCalories(day)

(***************************************************************************)
(* C7.  A completion in which some day lacks breakfast, lunch or dinner    *)
(* is a parse error: no plan with such a day is returned or persisted.     *)
(***************************************************************************)
C7_NoDayWithMissingMeal ==
  /\ \A r \in ReqIds :
       Returned(r, "generate")
         => \A i \in 1..Len(Days(req[r].value.meals)) :
              HasAllMeals(Days(req[r].value.meals)[i])
  /\ \A p \in 1..Len(plans) :
       \A i \in 1..Len(Days(plans[p].meals)) : HasAllMeals(Days(plans[p].meals)[i])

(***************************************************************************)
(* C8.  Fallback menus are never written to the per-user cache.            *)
(***************************************************************************)
C8_FallbackNeverCached ==
  \A row \in menuCache : row.menus # getFallbackMenus

CacheWriteFailed(r) == req[r].op = "recommended" /\ req[r].logged = "upsert failed"
ParsedMenus(r) ==
  /\ req[r].aiResponse.state = "resolved"
  /\ req[r].aiResponse.content.wellFormed
  /\ req[r].aiResponse.content.doc.type = "object"
  /\ "menus" \in DOMAIN req[r].aiResponse.content.doc.fields

(***************************************************************************)
(* C9.  A failure of the cache write never aborts or changes the result:   *)
(* when the upsert fails after a successful parse, getRecommendedMenus     *)
(* still returns the parsed menus, not an error and not the fallback.      *)
(***************************************************************************)
C9_CacheFailureKeepsResult ==
  \A r \in ReqIds :
    CacheWriteFailed(r)
      => /\ req[r].pc = "done"
         /\ req[r].outcome = "return"
         /\ req[r].status = 200
         /\ req[r].value = req[r].data
         /\ ParsedMenus(r)
              => /\ req[r].value = req[r].aiResponse.content.doc.fields.menus
                 /\ req[r].value # getFallbackMenus

C9_Witness ==
  \E r \in ReqIds :
    /\ CacheWriteFailed(r) /\ ParsedMenus(r)
    /\ req[r].outcome = "return"
    /\ req[r].value = Arr(<<OracleMenu>>)

RowsOf(userId) == {row \in menuCache : row.userId = userId}

(***************************************************************************)
(* C10.  The menu cache has at most one row per user, last write wins:     *)
(* under any interleaving of getRecommendedMenus calls, a user's row holds *)
(* exactly the menus of the latest completed upsert for that user, and a   *)
(* user without a completed upsert has no row.                             *)
(***************************************************************************)
C10_LastWriteWins ==
  \A u \in Callers :
    IF upserts[u] = Undefined
      THEN RowsOf(u) = {}
      ELSE /\ Cardinality(RowsOf(u)) = 1
           /\ \A row \in RowsOf(u) : row.menus = upserts[u]

\* two calls of one user have both written, with different menus
C10_Witness ==
  \E r1, r2 \in ReqIds :
    /\ r1 # r2
    /\ Returned(r1, "recommended") /\ Returned(r2, "recommended")
    /\ req[r1].userId = req[r2].userId
    /\ ~CacheWriteFailed(r1) /\ ~CacheWriteFailed(r2)
    /\ req[r1].logged = "" /\ req[r2].logged = ""
    /\ req[r1].value # req[r2].value
    /\ Cardinality(RowsOf(req[r1].userId)) = 1

(***************************************************************************)
(* Requests outside the ranges of the interface.                           *)
(***************************************************************************)
\* the ranges as the interface states them
BodyOutOfRange(body) ==
  \/ body.targetCalories.type # "number"
  \/ body.targetCalories.value < 1000 \/ body.targetCalories.value > 5000
  \/ /\ body.duration.type = "number"
     /\ body.duration.value < 1 \/ body.duration.value > 30

QueryOutOfRange(query) ==
  \/ query.difficulty.type = "string" /\ query.difficulty.value \notin {"easy", "medium", "hard"}
  \/ /\ query.maxCalories.type = "number"
     /\ query.maxCalories.value < 500 \/ query.maxCalories.value > 3000

\* slot q holds a 400 answer and nothing of the service
Answered400(q) ==
  /\ q.status = 400 /\ q.pc = "done" /\ q.outcome = "none"
  /\ q.userId = NoUser /\ q.aiResponse = NoResponse
  /\ q.data = Undefined /\ q.value = Undefined

RejectedBeforeService ==
  /\ \A r \in ReqIds, h \in GenerateRequests :
       (PostGenerate(r, h.principal, h.body) /\ BodyOutOfRange(h.body))
         => /\ Answered400(req'[r])
            /\ UNCHANGED <<plans, menuCache, upserts>>
  /\ \A r \in ReqIds, p \in Principals, query \in Queries :
       (GetRecommended(r, p, query) /\ QueryOutOfRange(query))
         => /\ Answered400(req'[r])
            /\ UNCHANGED <<plans, menuCache, upserts>>
  /\ \A r \in ReqIds : req[r].status = 400 => req'[r] = req[r]

(***************************************************************************)
(* C11.  A request outside the validation ranges (targetCalories outside   *)
(* 1000..5000, duration outside 1..30, maxCalories outside 500..3000, a    *)
(* difficulty other than easy, medium or hard) is answered 400 in the step *)
(* that receives it, before the service is entered: no user lookup, no     *)
(* completion call, no plan write and no cache write happens for it, then  *)
(* or later.                                                               *)
(***************************************************************************)
C11_OutOfRangeAnswered400 == [][RejectedBeforeService]_vars

C11_Witness ==
  \E r1, r2 \in ReqIds :
    /\ req[r1].op = "generate" /\ req[r1].status = 400
    /\ req[r2].op = "recommended" /\ req[r2].status = 400

(***************************************************************************)
(* C12.  Every POST /generate and GET /recommended request is eventually   *)
(* answered, also when the completion service never replies: the call is   *)
(* bounded by a timeout after which the service goes on to the fallback.   *)
(***************************************************************************)
C12_EveryRequestAnswered ==
  \A r \in ReqIds : (req[r].pc # "idle") ~> (req[r].pc = "done")

(***************************************************************************)
(* C13.  A request issues at most one completion call, on every path of    *)
(* POST /generate and GET /recommended: there is no retry, no polling and  *)
(* no call after the request was answered.                                 *)
(***************************************************************************)
C13_AtMostOneOracleCall ==
  \A r \in ReqIds :
    /\ req[r].oracleCalls <= 1
    /\ req[r].oracleCalls = 1 => req[r].pc # "findUser" /\ findUnique(req[r].userId)
    /\ req[r].aiResponse.state # "none" => req[r].oracleCalls = 1

\* a plan was returned and a failed menu call fell back, one call each
C13_Witness ==
  \E r1, r2 \in ReqIds :
    /\ Returned(r1, "generate") /\ req[r1].oracleCalls = 1
    /\ Returned(r2, "recommended") /\ req[r2].aiResponse.state = "rejected"
    /\ req[r2].oracleCalls = 1

(***************************************************************************)
(* C14.  After DELETE /:mealPlanId answered success for a plan of the      *)
(* caller, the plan is gone: reading it by id as that user finds nothing   *)
(* (GET /:mealPlanId answers 404) and GET / does not list it.              *)
(***************************************************************************)
C14_DeletedPlanIsGone ==
  \A r \in ReqIds :
    (req[r].op = "delete" /\ req[r].status = 200)
      => /\ getMealPlan(plans, req[r].userId, req[r].mealPlanId) = Null
         /\ \A mealPlans \in getUserMealPlans(plans, req[r].userId) :
              \A k \in DOMAIN mealPlans : mealPlans[k].id # req[r].mealPlanId

\* what getMealPlan gives now for the plan slot r returned, asked by its owner
ReadBack(r) == getMealPlan(plans, req[r].value.userId, req[r].value.id)

PlansOf(userId) == {i \in DOMAIN plans : plans[i].userId = userId}

(***************************************************************************)
(* C16.  getUserMealPlans returns exactly the plans of the given user:     *)
(* every one of them once, none of another user, the most recently created *)
(* first (createdAt never increases along the list).                       *)
(***************************************************************************)
C16_ListIsOwnPlansNewestFirst ==
  \A u \in Callers :
    /\ \E mealPlans \in getUserMealPlans(plans, u) : TRUE
    /\ \A mealPlans \in getUserMealPlans(plans, u) :
         /\ \A k \in DOMAIN mealPlans : mealPlans[k].userId = u
         /\ Len(mealPlans) = Cardinality(PlansOf(u))
         /\ \A i \in PlansOf(u) :
              \E k \in DOMAIN mealPlans : mealPlans[k] = PlanResponse(plans[i])
         /\ \A j, k \in DOMAIN mealPlans :
              j < k => mealPlans[j].createdAt >= mealPlans[k].createdAt

\* a user has two plans created at different instants
C16_Witness ==
  \E i, j \in DOMAIN plans :
    /\ plans[i].userId = plans[j].userId
    /\ plans[i].createdAt < plans[j].createdAt
    /\ \E mealPlans \in getUserMealPlans(plans, plans[i].userId) :
         Len(mealPlans) = 2 /\ mealPlans[1].id = plans[j].id

\* the completion of slot r was rejected, or resolved with no text or with
\* text that JSON.parse rejects
OracleUnusable(r) ==
  \/ req[r].aiResponse.state = "rejected"
  \/ /\ req[r].aiResponse.state = "resolved"
     /\ ~ContentOrEmpty(req[r].aiResponse.content).wellFormed

(***************************************************************************)
(* C17.  For an existing user getRecommendedMenus never raises because of  *)
(* the completion service: when the call fails or its text is malformed,   *)
(* the method returns the menus of the fallback catalog and GET            *)
(* /recommended answers 200.                                               *)
(***************************************************************************)
C17_MenusFallBackOnOracleFailure ==
  \A r \in ReqIds :
    (Finished(r, "recommended") /\ findUnique(req[r].userId))
      => /\ req[r].outcome = "return"
         /\ req[r].status = 200
         /\ OracleUnusable(r) => req[r].value = getFallbackMenus

\* one call fell back after a rejected completion, one after unparsable text
C17_Witness ==
  \E r1, r2 \in ReqIds :
    /\ Returned(r1, "recommended") /\ req[r1].aiResponse.state = "rejected"
    /\ req[r1].value = getFallbackMenus
    /\ Returned(r2, "recommended") /\ InvalidText(r2)
    /\ req[r2].value = getFallbackMenus

\* a day's total is the sum of its meals; a menu's total is the sum of the meals it lists
DayConsistent(day) == day.totalCalories = DayCalories(day)
MenuConsistent(menu) == menu.totalCalories = SumCalories(menu.meals)

(***************************************************************************)
(* C18.  Every entry of the fallback catalog is internally consistent:     *)
(* each day of the fallback plan has totalCalories equal to the sum of its *)
(* meals' calories, and each fallback menu has totalCalories equal to the  *)
(* sum of the calories of the meals it lists, wherever a call hands them   *)
(* out.                                                                    *)
(***************************************************************************)
C18_FallbackEntriesConsistent ==
  \A r \in ReqIds :
    /\ (Returned(r, "generate") /\ IsFallbackMeals(req[r].value.meals))
         => \A k \in DOMAIN req[r].value.meals.items :
              DayConsistent(req[r].value.meals.items[k])
    /\ (Returned(r, "recommended") /\ req[r].value = getFallbackMenus)
         => \A k \in DOMAIN req[r].value.items :
              MenuConsistent(req[r].value.items[k])

\* slot r returned what getFallbackMealPlan / getFallbackMenus built for it
GotFallbackPlan(r) == Returned(r, "generate") /\ InvalidText(r)
GotFallbackMenus(r) == Returned(r, "recommended") /\ OracleUnusable(r)

(***************************************************************************)
(* C19.  getFallbackMealPlan and getFallbackMenus are pure and             *)
(* deterministic: two calls, made at any two moments, return values equal  *)
(* in every field; nothing in them depends on the clock.                   *)
(***************************************************************************)
C19_FallbackIsDeterministic ==
  \A r1, r2 \in ReqIds :
    /\ (GotFallbackPlan(r1) /\ GotFallbackPlan(r2))
         => req[r1].value.meals = req[r2].value.meals
    /\ (GotFallbackMenus(r1) /\ GotFallbackMenus(r2))
         => req[r1].value = req[r2].value

\* slots r1 and r2 built their prompts from identical requests
SameRequest(r1, r2) ==
  /\ req[r1].prompt # Undefined /\ req[r2].prompt # Undefined
  /\ MealPlanRequest(req[r1]) = MealPlanRequest(req[r2])

ListOrNone(list) == IF list = Undefined THEN Arr(<<"none">>) ELSE list
ValueOrNone(value) == IF value = Undefined THEN Str("none") ELSE value

\* the request and the filters of slot q with every absent optional field spelled "none"
RequestWithNone(q) ==
  [MealPlanRequest(q) EXCEPT !.dietaryRestrictions = ListOrNone(@),
                             !.preferences = ListOrNone(@)]
FiltersWithNone(q) ==
  [difficulty |-> ValueOrNone(q.filters.difficulty),
   maxCalories |-> ValueOrNone(q.filters.maxCalories),
   dietaryRestrictions |-> ListOrNone(q.filters.dietaryRestrictions)]

(***************************************************************************)
(* C21.  Both prompt builders render every absent optional field as the    *)
(* sentinel "none": dietaryRestrictions and preferences in the plan        *)
(* prompt, difficulty, maxCalories and dietaryRestrictions in the menu     *)
(* prompt.  The prompt a request sends is the one it would send had it     *)
(* spelled "none" in each absent field.                                    *)
(***************************************************************************)
C21_AbsentFieldsRenderedNone ==
  \A r \in ReqIds :
    req[r].prompt # Undefined
      => /\ req[r].op = "generate"
              => req[r].prompt.value = createMealPlanPrompt(RequestWithNone(req[r]))
         /\ req[r].op = "recommended"
              => req[r].prompt.value =
                   createRecommendedMenuPrompt(req[r].userId, FiltersWithNone(req[r]))

\* the completion of slot r resolved with well-formed JSON that has no member key
LacksKey(r, key) ==
  /\ req[r].aiResponse.state = "resolved"
  /\ ContentOrEmpty(req[r].aiResponse.content).wellFormed
  /\ Read(ContentOrEmpty(req[r].aiResponse.content).doc, key) = Undefined

\* no meals at all: the value is missing or null
NoMeals(meals) == meals \in {Undefined, Null}

(***************************************************************************)
(* C22.  Well-formed JSON without the required member (no menus on the     *)
(* menu path, no meals on the plan path) counts as a parse failure: what   *)
(* the call returns is the fallback catalog entry, and an empty menu list  *)
(* or a plan without meals is never returned, stored or cached.            *)
(***************************************************************************)
C22_MissingMemberYieldsFallback ==
  /\ \A r \in ReqIds :
       /\ (Returned(r, "recommended") /\ LacksKey(r, "menus"))
            => req[r].value = getFallbackMenus
       /\ (Returned(r, "generate") /\ LacksKey(r, "meals"))
            => IsFallbackMeals(req[r].value.meals)
       /\ Returned(r, "recommended") => req[r].value # Arr(<<>>)
       /\ Returned(r, "generate") => ~NoMeals(req[r].value.meals)
  /\ \A row \in menuCache : row.menus # Arr(<<>>)
  /\ \A i \in DOMAIN plans : ~NoMeals(plans[i].meals)

\* the owner of the plan with this id, if the store holds one
OwnedBy(mealPlanId, userId) ==
  \E i \in DOMAIN plans : plans[i].id = mealPlanId /\ plans[i].userId = userId
OwnedByAnother(mealPlanId, userId) ==
  \E i \in DOMAIN plans : plans[i].id = mealPlanId /\ plans[i].userId # userId

\* what the store and the answered requests show of other users' plans
Isolated ==
  /\ \A u \in Callers, id \in PlanIds :
       LET mealPlan == getMealPlan(plans, u, id)
       IN  IF OwnedBy(id, u) THEN mealPlan # Null /\ mealPlan.userId = u /\ mealPlan.id = id
                             ELSE mealPlan = Null
  /\ \A r \in ReqIds :
       (req[r].op \in {"get", "delete"} /\ req[r].outcome = "return")
         => /\ OwnedByAnother(req[r].mealPlanId, req[r].userId) => req[r].status = 404
            /\ req[r].status = 200 => OwnedBy(req[r].mealPlanId, req[r].userId)
            /\ (req[r].status = 200 /\ req[r].op = "get")
                 => req[r].value.userId = req[r].userId

\* no step changes or removes a plan that is in the store, and a GET or
\* DELETE request leaves the store as it is
PlansUntouched ==
  /\ Len(plans') >= Len(plans)
  /\ \A i \in DOMAIN plans : plans'[i] = plans[i]
  /\ \A r \in ReqIds :
       (req'[r] # req[r] /\ req'[r].op \in {"get", "delete"}) => plans' = plans

(***************************************************************************)
(* C23.  Ownership isolation: getMealPlan(userId, mealPlanId) returns a    *)
(* plan only when that user owns it; GET /:mealPlanId and DELETE           *)
(* /:mealPlanId answer 404 for a plan of another user; and no request      *)
(* changes a plan that is in the store, so nothing user A sends exposes or *)
(* affects a plan of user B.                                               *)
(***************************************************************************)
C23_OwnershipIsolation == [][PlansUntouched /\ Isolated']_vars

\* a request for another user's plan, by id, was answered 404 while the plan is there
C23_Witness ==
  \E r \in ReqIds :
    /\ req[r].op \in {"get", "delete"} /\ req[r].status = 404
    /\ OwnedByAnother(req[r].mealPlanId, req[r].userId)

\* slot r entered a service method for an id that has no user row
AbsentUser(r) ==
  /\ req[r].op \in {"generate", "recommended"}
  /\ req[r].userId # NoUser /\ req[r].userId \notin Users

(***************************************************************************)
(* C24.  The user-existence check comes before every other step: for a     *)
(* user that does not exist, generateMealPlan and getRecommendedMenus      *)
(* build no prompt and make no completion call, no plan record is created  *)
(* and no cache entry is written.                                          *)
(***************************************************************************)
C24_AbsentUserCausesNothing ==
  /\ \A r \in ReqIds :
       AbsentUser(r)
         => /\ req[r].pc \in {"findUser", "done"}
            /\ req[r].oracleCalls = 0
            /\ req[r].prompt = Undefined
            /\ req[r].aiResponse = NoResponse
            /\ req[r].data = Undefined
  /\ \A i \in DOMAIN plans : plans[i].userId \in Users
  /\ \A row \in menuCache : row.userId \in Users
  /\ \A u \in Callers \ Users : upserts[u] = Undefined

\* both methods were called for the absent user and have finished
C24_Witness ==
  \E r1, r2 \in ReqIds :
    /\ AbsentUser(r1) /\ Finished(r1, "generate")
    /\ AbsentUser(r2) /\ Finished(r2, "recommended")

\* the rows that carry the id a returned generateMealPlan call reported
RecordsOf(r) == {i \in DOMAIN plans : plans[i].id = req[r].value.id}

\* the plan store holds one record per returned call and nothing else
OneRecordPerReturn ==
  /\ Len(plans) = Cardinality({r \in ReqIds : Returned(r, "generate")})
  /\ \A r \in ReqIds :
       Returned(r, "generate")
         => /\ Cardinality(RecordsOf(r)) = 1
            /\ \A i \in RecordsOf(r) :
                 /\ plans[i].userId = req[r].userId
                 /\ plans[i].targetCalories = req[r].targetCalories
                 /\ plans[i].duration = OrElse(req[r].duration, Num(7)).value
  /\ \A r1, r2 \in ReqIds :
       (r1 # r2 /\ Returned(r1, "generate") /\ Returned(r2, "generate"))
         => req[r1].value.id # req[r2].value.id

\* what a step of one call may write
WritesOwnStoreOnly ==
  \A r \in ReqIds :
    req'[r] # req[r]
      => /\ req'[r].op = "generate" => menuCache' = menuCache /\ upserts' = upserts
         /\ req'[r].op = "recommended" => plans' = plans
         /\ (req'[r].op = "generate" /\ req'[r].outcome = "throw") => plans' = plans
         /\ (req'[r].op = "generate" /\ req'[r].outcome = "return")
              => Len(plans') = Len(plans) + 1 /\ SubSeq(plans', 1, Len(plans)) = plans

(***************************************************************************)
(* C25.  generateMealPlan changes the plan store atomically per call: a    *)
(* call that returns has added exactly one plan record, owned by           *)
(* request.userId with the requested targetCalories and duration           *)
(* (request.duration or 7); a call that throws has added none; it never    *)
(* writes the menu cache, and getRecommendedMenus never writes the plan    *)
(* store.                                                                  *)
(***************************************************************************)
C25_OnePlanPerReturnedCall == [][WritesOwnStoreOnly /\ OneRecordPerReturn']_vars

\* one call returned a two-day plan, another threw on the store, one record exists
C25_Witness ==
  \E r1, r2 \in ReqIds :
    /\ Returned(r1, "generate") /\ req[r1].duration = Num(2)
    /\ Threw(r2, "generate") /\ req[r2].logged = "create failed"
    /\ Len(plans) = 1

====
